---------------------------- MODULE Spec2Model ----------------------------
(***************************************************************************)
(* A model of scs_host_bbe_southern:                                       *)
(*                                                                         *)
(*   scs_host/bus/spi.py            SPI, the lock-guarded bus handle       *)
(*   scs_host/comms/domain_socket.py DomainSocket, the Unix domain socket  *)
(*                                  channel (client-server API and the     *)
(*                                  unidirectional read()/write() API)     *)
(*                                                                         *)
(* Three specifications share the module, one per subsystem:               *)
(*   SpecSPI      processes opening and closing SPI handles                *)
(*   SpecCS       the client-server API of DomainSocket                    *)
(*   SpecStream   the unidirectional API of DomainSocket                   *)
(* Python strings are sequences of one-character strings; bytes are        *)
(* sequences of byte names.                                                *)
(***************************************************************************)
EXTENDS Integers, Sequences, FiniteSets, TLC

(***************************************************************************)
(* Bounds of the model.                                                    *)
(***************************************************************************)
\* number of processes, each owning one SPI handle
NProcs == 2
\* bus numbers are 0 .. MaxBus
MaxBus == 1
\* SPI.open() / SPI.close() calls made in one run, over all processes
MaxCalls == 5

\* DomainSocket.__BUFFER_SIZE (domain_socket.py line 30), 1024 in the code, scaled down
BUFFER_SIZE == 2
\* server_send() / client_send() calls made in one run
MaxSends == 2
\* write() calls made in one run, over all writers
MaxWrites == 2

Procs == 1 .. NProcs
Buses == 0 .. MaxBus
\* the writer processes of the unidirectional API, each with one DomainSocket
Writers == {1, 2}

VARIABLES
    \* ---- SPI -------------------------------------------------------------
    bus,            \* bus[p]: SPI.__bus of the handle of process p
    connection,     \* connection[p]: SPI.__connection
    lock,           \* lock[name]: the process holding the named lock, or NoOne
    spiPc,          \* spiPc[p]: where process p stands inside open() / close()
    spiLast,        \* spiLast[p]: the last completed call and how it ended
    calls,          \* calls[p]: the calls process p has made, oldest first
    lockOps,        \* lockOps[p]: the lock operations of p's handle, oldest first
    nCalls          \* calls made so far, over all processes

spiVars == <<bus, connection, lock, spiPc, spiLast, calls, lockOps, nCalls>>

VARIABLES
    \* ---- DomainSocket, unidirectional API: one reader, the writers ------
    stPath,         \* TRUE when the socket's path exists in the filesystem
    rdSock,         \* the reader's DomainSocket.__socket
    rdPc,           \* where the reader stands in its read() generator
    rdConn,         \* the reader's DomainSocket.__conn: the writer at the other end, or NoConn
    rdMsg,          \* message of __read: the bytes drained so far
    rdExit,         \* how the last read() generator ended
    backlog,        \* connections made to the listening socket and not accepted yet
    accepted,       \* the writers whose connections were accepted, in accept order
    yielded,        \* the payloads the read() generators yielded, in order
    wSock,          \* wSock[w]: the writer's DomainSocket.__socket
    wPc,            \* wPc[w]: where the writer stands in write()
    wMessage,       \* wMessage[w]: the message argument of the current write()
    wWait,          \* wWait[w]: the wait_for_availability argument of the current write()
    wLast,          \* wLast[w]: how the last completed write() ended
    nWrites,        \* write() calls made so far, over all writers
    wire,           \* wire[w]: bytes sent on w's connection and not received yet
    sent,           \* sent[w]: all the bytes w sent on its connection
    wNoListener,    \* wNoListener[w]: the current write() was called with no listener live
    rd2Pc           \* where a second reader, of the same path, stands in its read()

stVars == <<stPath, rdSock, rdPc, rdConn, rdMsg, rdExit, backlog, accepted,
            yielded, wSock, wPc, wMessage, wWait, wLast, nWrites, wire, sent,
            wNoListener, rd2Pc>>

VARIABLES
    \* ---- DomainSocket, client-server API: one server, one client --------
    csPath,         \* TRUE when the socket's path exists in the filesystem
    sSock,          \* the server's DomainSocket.__socket
    sPc,            \* where the server stands in accept()
    sConn,          \* the server's DomainSocket.__conn
    cSock,          \* the client's DomainSocket.__socket
    pending,        \* TRUE when the client's connection waits to be accepted
    buf,            \* buf[d]: bytes sent in direction d and not received yet
    rPc,            \* rPc[d]: where the receiver of direction d stands in __receive
    rMsg,           \* rMsg[d]: message of __receive, the characters read so far
    sendLast,       \* sendLast[d]: how the last send in direction d ended
    connectLast,    \* how the connect of the last client_send ended
    sentLog,        \* sentLog[d]: the messages sent in direction d, oldest first
    recvLog,        \* recvLog[d]: how the receive calls of direction d ended, oldest first
    nSends          \* send calls made so far, in both directions

csVars == <<csPath, sSock, sPc, sConn, cSock, pending, buf, rPc, rMsg, sendLast,
            connectLast, sentLog, recvLog, nSends>>

vars == <<spiVars, stVars, csVars>>

\* the variables a subsystem's steps leave alone
notSPI == <<stVars, csVars>>
notStream == <<spiVars, csVars>>
notCS == <<spiVars, stVars>>

(***************************************************************************)
(* scs_host.lock.lock.Lock: the named lock.  Its code is not part of the   *)
(* sources at hand; it is modelled from its interface: acquire(name,       *)
(* timeout) takes the lock when it is free and otherwise fails once the    *)
(* timeout has elapsed, release(name) frees it.                            *)
(***************************************************************************)
NoOne == 0

\* SPI.__name__ + str(bus): one name per bus number
LockName(b) == <<"SPI", b>>

LockNames == { LockName(b) : b \in Buses }

Lock_free(name) == lock[name] = NoOne

Lock_acquire(name, p) == [lock EXCEPT ![name] = p]

Lock_release(name) == [lock EXCEPT ![name] = NoOne]

(***************************************************************************)
(* SPI                                                                     *)
(*                                                                         *)
(* connection[p] is "None", or a SpiDev object: "unopened" (constructed,   *)
(* open() not done), "open" (the hardware connection is live).             *)
(***************************************************************************)
SPIInit ==
    /\ bus \in [Procs -> Buses]
    /\ connection = [p \in Procs |-> "None"]
    /\ lock = [n \in LockNames |-> NoOne]
    /\ spiPc = [p \in Procs |-> "idle"]
    /\ spiLast = [p \in Procs |-> <<"none", "none">>]
    /\ calls = [p \in Procs |-> <<>>]
    /\ lockOps = [p \in Procs |-> <<>>]
    /\ nCalls = 0

SPI_name(p) == LockName(bus[p])

\* SPI.__device of the handle of process p, given to the constructor: handles of
\* consecutive processes differ in it, those two processes apart agree. It is read
\* by SpiDev.open alone (line 54).
device == [p \in Procs |-> p % 2]

\* a call begins: the caller is between calls and the run's budget allows it
SPI_call(p, op) ==
    /\ spiPc[p] = "idle"
    /\ nCalls < MaxCalls
    /\ nCalls' = nCalls + 1
    /\ calls' = [calls EXCEPT ![p] = Append(@, op)]

\* open(), lines 48-49: already connected, return
SPI_open_noop(p) ==
    /\ SPI_call(p, "open")
    /\ connection[p] # "None"
    /\ spiLast' = [spiLast EXCEPT ![p] = <<"open", "noop">>]
    /\ UNCHANGED <<notSPI, bus, connection, lock, spiPc, lockOps>>

\* open(), line 48 passed: the call goes on to Lock.acquire
SPI_open_begin(p) ==
    /\ SPI_call(p, "open")
    /\ connection[p] = "None"
    /\ spiPc' = [spiPc EXCEPT ![p] = "open_acquire"]
    /\ UNCHANGED <<notSPI, bus, connection, lock, spiLast, lockOps>>

\* open() going on without the lock: Lock.acquire's failure is not honoured
SPI_open_acquired_unguarded(p) ==
    /\ spiPc[p] = "open_acquire"
    /\ lock' = Lock_acquire(SPI_name(p), p)
    /\ lockOps' = [lockOps EXCEPT ![p] = Append(@, "acquire")]
    /\ spiPc' = [spiPc EXCEPT ![p] = "open_connect"]
    /\ UNCHANGED <<notSPI, bus, connection, spiLast, calls, nCalls>>

\* open(), line 51: Lock.acquire returns, the lock is taken
SPI_open_acquired(p) ==
    /\ spiPc[p] = "open_acquire"
    /\ Lock_free(SPI_name(p))
    /\ lock' = Lock_acquire(SPI_name(p), p)
    /\ lockOps' = [lockOps EXCEPT ![p] = Append(@, "acquire")]
    /\ spiPc' = [spiPc EXCEPT ![p] = "open_connect"]
    /\ UNCHANGED <<notSPI, bus, connection, spiLast, calls, nCalls>>

\* open() timing out on a lock held for any bus
SPI_open_timeout_any_bus(p) ==
    /\ spiPc[p] = "open_acquire"
    /\ \E n \in LockNames : ~Lock_free(n)
    /\ spiPc' = [spiPc EXCEPT ![p] = "idle"]
    /\ spiLast' = [spiLast EXCEPT ![p] = <<"open", "LockTimeout">>]
    /\ UNCHANGED <<notSPI, bus, connection, lock, calls, lockOps, nCalls>>

\* open() carrying on to the hardware connection after the timeout
SPI_open_timeout_ignored(p) ==
    /\ spiPc[p] = "open_acquire"
    /\ ~Lock_free(SPI_name(p))
    /\ spiPc' = [spiPc EXCEPT ![p] = "open_connect"]
    /\ UNCHANGED <<notSPI, bus, connection, lock, spiLast, calls, lockOps, nCalls>>

\* open(), line 51: Lock.acquire fails after the timeout; the exception leaves open()
SPI_open_timeout(p) ==
    /\ spiPc[p] = "open_acquire"
    /\ ~Lock_free(SPI_name(p))
    /\ spiPc' = [spiPc EXCEPT ![p] = "idle"]
    /\ spiLast' = [spiLast EXCEPT ![p] = <<"open", "LockTimeout">>]
    /\ UNCHANGED <<notSPI, bus, connection, lock, calls, lockOps, nCalls>>

\* open(), lines 53-57: SpiDev(), then SpiDev.open and the mode and speed settings,
\* any of which the hardware may fail. __connection is assigned at line 53, before them.
SPI_open_connect(p) ==
    /\ spiPc[p] = "open_connect"
    /\ \E outcome \in {"ok", "open_fails", "setting_fails"} :
          /\ connection' = [connection EXCEPT ![p] =
                               IF outcome = "open_fails" THEN "unopened" ELSE "open"]
          /\ spiLast' = [spiLast EXCEPT ![p] =
                               <<"open", IF outcome = "ok" THEN "ok" ELSE "IOError">>]
    /\ spiPc' = [spiPc EXCEPT ![p] = "idle"]
    /\ UNCHANGED <<notSPI, bus, lock, calls, lockOps, nCalls>>

SPI_open(p) ==
    \/ SPI_open_noop(p)
    \/ SPI_open_begin(p)
    \/ SPI_open_acquired(p)
    \/ SPI_open_timeout(p)
    \/ SPI_open_connect(p)

\* close(), lines 61-62: not connected, return
SPI_close_noop(p) ==
    /\ SPI_call(p, "close")
    /\ connection[p] = "None"
    /\ spiLast' = [spiLast EXCEPT ![p] = <<"close", "noop">>]
    /\ UNCHANGED <<notSPI, bus, connection, lock, spiPc, lockOps>>

\* close(), lines 64-65: SpiDev.close() succeeds and __connection is cleared
SPI_close_disconnect(p) ==
    /\ SPI_call(p, "close")
    /\ connection[p] # "None"
    /\ connection' = [connection EXCEPT ![p] = "None"]
    /\ spiPc' = [spiPc EXCEPT ![p] = "close_release"]
    /\ UNCHANGED <<notSPI, bus, lock, spiLast, lockOps>>

\* close(), line 64: SpiDev.close() raises; the exception leaves close() at once
SPI_close_fails(p) ==
    /\ SPI_call(p, "close")
    /\ connection[p] # "None"
    /\ spiLast' = [spiLast EXCEPT ![p] = <<"close", "IOError">>]
    /\ UNCHANGED <<notSPI, bus, connection, lock, spiPc, lockOps>>

\* close(), line 67: Lock.release
SPI_close_release(p) ==
    /\ spiPc[p] = "close_release"
    /\ lock' = Lock_release(SPI_name(p))
    /\ lockOps' = [lockOps EXCEPT ![p] = Append(@, "release")]
    /\ spiPc' = [spiPc EXCEPT ![p] = "idle"]
    /\ spiLast' = [spiLast EXCEPT ![p] = <<"close", "ok">>]
    /\ UNCHANGED <<notSPI, bus, connection, calls, nCalls>>

SPI_close(p) ==
    \/ SPI_close_noop(p)
    \/ SPI_close_disconnect(p)
    \/ SPI_close_fails(p)
    \/ SPI_close_release(p)

SPINext == \E p \in Procs : SPI_open(p) \/ SPI_close(p)


(***************************************************************************)
(* Strings and bytes.                                                      *)
(*                                                                         *)
(* str.encode() and bytes.decode() are UTF-8: an ASCII character is one    *)
(* byte, "é" is the two bytes C3 A9.                                       *)
(***************************************************************************)
EOM == "\n"

Whitespace == {" ", "\n"}

EncodeChar(c) == IF c = "é" THEN <<"C3", "A9">> ELSE <<c>>

RECURSIVE Encode(_)
Encode(str) ==
    IF str = <<>> THEN <<>> ELSE EncodeChar(Head(str)) \o Encode(Tail(str))

\* bytes.decode() of a whole byte string; "UnicodeDecodeError" when it is not UTF-8
RECURSIVE Decode(_)
Decode(bytes) ==
    IF bytes = <<>> THEN <<>>
    ELSE IF Head(bytes) = "C3"
         THEN IF Len(bytes) >= 2 /\ bytes[2] = "A9"
              THEN LET rest == Decode(Tail(Tail(bytes)))
                   IN  IF rest = "UnicodeDecodeError" THEN rest ELSE <<"é">> \o rest
              ELSE "UnicodeDecodeError"
         ELSE IF Head(bytes) = "A9" THEN "UnicodeDecodeError"
         ELSE LET rest == Decode(Tail(bytes))
              IN  IF rest = "UnicodeDecodeError" THEN rest ELSE <<Head(bytes)>> \o rest

\* str.lstrip() / str.rstrip() / str.strip()
RECURSIVE LStrip(_)
LStrip(str) ==
    IF str # <<>> /\ Head(str) \in Whitespace THEN LStrip(Tail(str)) ELSE str

RECURSIVE RStrip(_)
RStrip(str) ==
    IF str # <<>> /\ str[Len(str)] \in Whitespace
    THEN RStrip(SubSeq(str, 1, Len(str) - 1)) ELSE str

Strip(str) == RStrip(LStrip(str))

Min(a, b) == IF a < b THEN a ELSE b

(***************************************************************************)
(* DomainSocket, unidirectional API: read() and write().                   *)
(*                                                                         *)
(* One reader process and the writers, each with a DomainSocket of the     *)
(* same path.  A socket is "None" (no connect() yet), "created",           *)
(* "bound", "listening", "connected" or "closed".  The calls are made as   *)
(* the class is used: connect() first, on a channel that holds no socket.  *)
(***************************************************************************)
BACKLOG == 1

NoConn == 0

\* the messages the writers pass to write()
Messages == { <<" ", "a", "\n">>, <<"é", "\n", "b">> }

StreamInit ==
    /\ stPath = FALSE
    /\ rdSock = "None"
    /\ rdPc = "idle"
    /\ rdConn = NoConn
    /\ rdMsg = <<>>
    /\ rdExit = "none"
    /\ backlog = <<>>
    /\ accepted = <<>>
    /\ yielded = <<>>
    /\ wSock = [w \in Writers |-> "None"]
    /\ wPc = [w \in Writers |-> "idle"]
    /\ wMessage = [w \in Writers |-> <<>>]
    /\ wWait = [w \in Writers |-> TRUE]
    /\ wLast = [w \in Writers |-> "none"]
    /\ nWrites = 0
    /\ wire = [w \in Writers |-> <<>>]
    /\ sent = [w \in Writers |-> <<>>]
    /\ wNoListener = [w \in Writers |-> FALSE]
    /\ rd2Pc = "idle"

rdVars == <<rdSock, rdPc, rdConn, rdMsg, rdExit, accepted, yielded>>
wrVars == <<wSock, wPc, wMessage, wWait, wLast, nWrites, wire, sent, wNoListener>>

\* a listening socket is bound to the path
ListenerLive == stPath /\ rdSock = "listening"

\* ---- the reader ----------------------------------------------------------

\* connect(), line 65, on the reader's channel: a new socket
reader_connect ==
    /\ rdSock = "None"
    /\ rdPc = "idle"
    /\ rdSock' = "created"
    /\ UNCHANGED <<notStream, rd2Pc, stPath, rdPc, rdConn, rdMsg, rdExit, backlog, accepted,
                   yielded, wrVars>>

\* read(), line 127: the generator is started and binds the path. bind fails when
\* the path exists or the socket is bound already; the failure leaves read() before
\* its try statement.
read_bind ==
    /\ rdPc \in {"idle", "exited"}
    /\ rdSock # "None"
    /\ IF rdSock = "created" /\ ~stPath
       THEN /\ stPath' = TRUE
            /\ rdSock' = "bound"
            /\ rdPc' = "listen"
            /\ rdExit' = "none"
       ELSE /\ rdPc' = "exited"
            /\ rdExit' = "bind_error"
            /\ UNCHANGED <<stPath, rdSock>>
    /\ UNCHANGED <<notStream, rd2Pc, rdConn, rdMsg, backlog, accepted, yielded, wrVars>>

\* read(), line 128: listen, which may fail (an error of the system, an interrupt);
\* the failure leaves read() before its try statement
read_listen ==
    /\ rdPc = "listen"
    /\ \/ /\ rdSock' = "listening"
          /\ rdPc' = "chmod"
          /\ UNCHANGED rdExit
       \/ /\ rdPc' = "exited"
          /\ rdExit' = "listen_error"
          /\ UNCHANGED rdSock
    /\ UNCHANGED <<notStream, rd2Pc, stPath, rdConn, rdMsg, backlog, accepted, yielded, wrVars>>

\* read(), line 130: os.chmod, which may fail; the failure leaves read() before its
\* try statement
read_chmod ==
    /\ rdPc = "chmod"
    /\ \/ /\ rdPc' = "accept"
          /\ UNCHANGED rdExit
       \/ /\ rdPc' = "exited"
          /\ rdExit' = "chmod_error"
    /\ UNCHANGED <<notStream, rd2Pc, stPath, rdSock, rdConn, rdMsg, backlog, accepted, yielded,
                   wrVars>>

\* read(), line 134, with a message that is not reset for the new connection
read_accept_keeps_message ==
    /\ rdPc = "accept"
    /\ rdSock = "listening"
    /\ backlog # <<>>
    /\ rdConn' = Head(backlog)
    /\ backlog' = Tail(backlog)
    /\ accepted' = Append(accepted, Head(backlog))
    /\ rdPc' = "drain"
    /\ UNCHANGED <<notStream, rd2Pc, stPath, rdSock, rdMsg, rdExit, yielded, wrVars>>

\* read(), line 134: accept returns the oldest connection of the backlog; line 138
\* enters __read, whose message starts empty (line 36)
read_accept ==
    /\ rdPc = "accept"
    /\ rdSock = "listening"
    /\ backlog # <<>>
    /\ rdConn' = Head(backlog)
    /\ backlog' = Tail(backlog)
    /\ accepted' = Append(accepted, Head(backlog))
    /\ rdMsg' = <<>>
    /\ rdPc' = "drain"
    /\ UNCHANGED <<notStream, rd2Pc, stPath, rdSock, rdExit, yielded, wrVars>>

\* read(), line 134: accept fails (the socket was closed, or an interrupt); lines
\* 143-144 unlink the path on the way out
read_accept_fails ==
    /\ rdPc = "accept"
    /\ stPath' = FALSE
    /\ rdPc' = "exited"
    /\ rdExit' = "accept_error"
    /\ UNCHANGED <<notStream, rd2Pc, rdSock, rdConn, rdMsg, backlog, accepted, yielded, wrVars>>

\* __read, lines 39-44: recv returns up to BUFFER_SIZE of the bytes that have arrived
read_recv ==
    /\ rdPc = "drain"
    /\ wire[rdConn] # <<>>
    /\ \E n \in 1 .. Min(BUFFER_SIZE, Len(wire[rdConn])) :
          /\ rdMsg' = rdMsg \o SubSeq(wire[rdConn], 1, n)
          /\ wire' = [wire EXCEPT ![rdConn] = SubSeq(@, n + 1, Len(@))]
    /\ UNCHANGED <<notStream, rd2Pc, stPath, rdSock, rdPc, rdConn, rdExit, backlog, accepted,
                   yielded, wSock, wPc, wMessage, wWait, wLast, nWrites, sent,
                   wNoListener>>

\* __read returning as soon as no byte is waiting, the writer closed or not
read_yield_when_drained ==
    /\ rdPc = "drain"
    /\ wire[rdConn] = <<>>
    /\ yielded' = Append(yielded, Strip(Decode(rdMsg)))
    /\ rdPc' = "yield"
    /\ UNCHANGED <<notStream, rd2Pc, stPath, rdSock, rdConn, rdMsg, rdExit, backlog, accepted,
                   wrVars>>

\* __read, lines 41-46, and read(), line 138: the writer has closed and all its bytes
\* are read, recv returns b''; the decoded message is stripped and yielded
read_yield ==
    /\ rdPc = "drain"
    /\ wire[rdConn] = <<>>
    /\ wSock[rdConn] = "closed"
    /\ yielded' = Append(yielded, Strip(Decode(rdMsg)))
    /\ rdPc' = "yield"
    /\ UNCHANGED <<notStream, rd2Pc, stPath, rdSock, rdConn, rdMsg, rdExit, backlog, accepted,
                   wrVars>>

\* read(), lines 140-141 and 133: the generator is resumed; the connection is
\* closed and the loop goes back to accept
read_resume ==
    /\ rdPc = "yield"
    /\ rdConn' = NoConn
    /\ rdPc' = "accept"
    /\ UNCHANGED <<notStream, rd2Pc, stPath, rdSock, rdMsg, rdExit, backlog, accepted, yielded,
                   wrVars>>

\* read(), lines 140-144: the generator is closed at its yield; the connection is
\* closed and the path unlinked
read_close ==
    /\ rdPc = "yield"
    /\ rdConn' = NoConn
    /\ stPath' = FALSE
    /\ rdPc' = "exited"
    /\ rdExit' = "closed"
    /\ UNCHANGED <<notStream, rd2Pc, rdSock, rdMsg, backlog, accepted, yielded, wrVars>>

\* close(), lines 77-79, on the reader's channel, between two steps of its
\* generator: the listening socket is closed and the connections waiting in its
\* backlog are dropped; a new socket needs connect() again
reader_close ==
    /\ rdPc \in {"yield", "exited"}
    /\ rdSock \notin {"None", "closed"}
    /\ rdSock' = "closed"
    /\ backlog' = <<>>
    /\ UNCHANGED <<notStream, rd2Pc, stPath, rdPc, rdConn, rdMsg, rdExit, accepted, yielded,
                   wrVars>>

\* connect(), line 65, on the reader's channel after close(): a new socket
reader_reconnect ==
    /\ rdPc = "exited"
    /\ rdSock = "closed"
    /\ rdSock' = "created"
    /\ UNCHANGED <<notStream, rd2Pc, stPath, rdPc, rdConn, rdMsg, rdExit, backlog, accepted,
                   yielded, wrVars>>

\* ---- a second reader -----------------------------------------------------

\* read() with the bind inside the try statement: the failure of the bind goes
\* through the finally, which unlinks the path
read2_bind_fails_unlinks ==
    /\ rd2Pc = "idle"
    /\ stPath
    /\ rd2Pc' = "exited"
    /\ stPath' = FALSE
    /\ UNCHANGED <<notStream, rdVars, backlog, wrVars>>

\* read(), line 127, on the channel of a second reader, started while the path
\* exists: bind raises (address in use) and the failure leaves read() before its try
\* statement
read2_bind_fails ==
    /\ rd2Pc = "idle"
    /\ stPath
    /\ rd2Pc' = "exited"
    /\ UNCHANGED <<notStream, stPath, rdVars, backlog, wrVars>>

\* the second reader calls read() once more
read2_again ==
    /\ rd2Pc = "exited"
    /\ rd2Pc' = "idle"
    /\ UNCHANGED <<notStream, stPath, rdVars, backlog, wrVars>>

\* ---- the writers ---------------------------------------------------------

\* connect(), line 65, on a writer's channel: a new socket
writer_connect(w) ==
    /\ wSock[w] = "None"
    /\ wSock' = [wSock EXCEPT ![w] = "created"]
    /\ UNCHANGED <<notStream, rd2Pc, wNoListener, stPath, rdVars,
                   backlog, wPc, wMessage, wWait, wLast, nWrites,
                   wire, sent>>

\* write(message, wait_for_availability) is called, on a channel that holds a socket
\* and was not closed
write_call(w) ==
    /\ wPc[w] = "idle"
    /\ wSock[w] \in {"created", "connected"}
    /\ nWrites < MaxWrites
    /\ nWrites' = nWrites + 1
    /\ \E m \in Messages, f \in BOOLEAN :
          /\ wMessage' = [wMessage EXCEPT ![w] = m]
          /\ wWait' = [wWait EXCEPT ![w] = f]
    /\ wPc' = [wPc EXCEPT ![w] = "connect"]
    /\ wNoListener' = [wNoListener EXCEPT ![w] = ~ListenerLive]
    /\ UNCHANGED <<notStream, rd2Pc, stPath, rdVars, backlog, wSock, wLast, wire, sent>>

\* the connect of line 151 succeeds: the socket is unconnected, a listening socket
\* is bound to the path and its backlog has room
CanConnect(w) ==
    /\ wSock[w] = "created"
    /\ ListenerLive
    /\ Len(backlog) <= BACKLOG

\* the connect of line 151 raises: no path (FileNotFoundError), no listening socket
\* at the path (ConnectionRefusedError), or a socket that is connected already
\* (OSError, "Transport endpoint is already connected")
ConnectRaises(w) ==
    \/ wSock[w] # "created"
    \/ ~ListenerLive

\* write(), lines 151-152: connect succeeds
write_connected(w) ==
    /\ wPc[w] = "connect"
    /\ CanConnect(w)
    /\ wSock' = [wSock EXCEPT ![w] = "connected"]
    /\ backlog' = Append(backlog, w)
    /\ wPc' = [wPc EXCEPT ![w] = "send"]
    /\ UNCHANGED <<notStream, rd2Pc, wNoListener, stPath, rdVars,
                   wMessage, wWait, wLast, nWrites, wire, sent>>

\* write(), lines 154-158, with the wait_for_availability test left out
write_connect_raises_always_waits(w) ==
    /\ wPc[w] = "connect"
    /\ ConnectRaises(w)
    /\ wPc' = [wPc EXCEPT ![w] = "sleep"]
    /\ UNCHANGED <<notStream, rd2Pc, wNoListener, stPath, rdVars,
                   backlog, wSock, wMessage, wWait, wLast, nWrites,
                   wire, sent>>

\* write(), lines 154-158: connect raises; without wait_for_availability the call
\* raises ConnectionRefusedError, with it the call sleeps
write_connect_raises(w) ==
    /\ wPc[w] = "connect"
    /\ ConnectRaises(w)
    /\ IF wWait[w]
       THEN /\ wPc' = [wPc EXCEPT ![w] = "sleep"]
            /\ UNCHANGED <<wLast, wNoListener, wMessage, wWait>>
       ELSE /\ wPc' = [wPc EXCEPT ![w] = "idle"]
            /\ wLast' = [wLast EXCEPT ![w] = "ConnectionRefusedError"]
            /\ wNoListener' = [wNoListener EXCEPT ![w] = FALSE]
            /\ wMessage' = [wMessage EXCEPT ![w] = <<>>]
            /\ wWait' = [wWait EXCEPT ![w] = TRUE]
    /\ UNCHANGED <<notStream, rd2Pc, stPath, rdVars, backlog, wSock, nWrites, wire, sent>>

\* write(), lines 158 and 149: the sleep is over, the loop tries again
write_sleep(w) ==
    /\ wPc[w] = "sleep"
    /\ wPc' = [wPc EXCEPT ![w] = "connect"]
    /\ UNCHANGED <<notStream, rd2Pc, wNoListener, stPath, rdVars,
                   backlog, wSock, wMessage, wWait, wLast, nWrites,
                   wire, sent>>

\* write(), line 161: sendall of the stripped, encoded message; it raises when the
\* listening socket was closed before the connection was accepted
write_sendall(w) ==
    /\ wPc[w] = "send"
    /\ LET live == \/ rdConn = w
                   \/ \E i \in 1 .. Len(backlog) : backlog[i] = w
           data == Encode(Strip(wMessage[w]))
       IN  IF live
           THEN /\ wire' = [wire EXCEPT ![w] = @ \o data]
                /\ sent' = [sent EXCEPT ![w] = @ \o data]
                /\ wLast' = [wLast EXCEPT ![w] = "ok"]
           ELSE /\ wLast' = [wLast EXCEPT ![w] = "BrokenPipeError"]
                /\ UNCHANGED <<wire, sent>>
    /\ wPc' = [wPc EXCEPT ![w] = "idle"]
    /\ wNoListener' = [wNoListener EXCEPT ![w] = FALSE]
    /\ wMessage' = [wMessage EXCEPT ![w] = <<>>]
    /\ wWait' = [wWait EXCEPT ![w] = TRUE]
    /\ UNCHANGED <<notStream, rd2Pc, stPath, rdVars, backlog, wSock, nWrites>>

\* close(), lines 77-79, on a writer's channel, between two calls
writer_close(w) ==
    /\ wPc[w] = "idle"
    /\ wSock[w] \in {"created", "connected"}
    /\ wSock' = [wSock EXCEPT ![w] = "closed"]
    /\ UNCHANGED <<notStream, rd2Pc, wNoListener, stPath, rdVars,
                   backlog, wPc, wMessage, wWait, wLast, nWrites,
                   wire, sent>>

read ==
    \/ read_bind
    \/ read_listen
    \/ read_chmod
    \/ read_accept
    \/ read_accept_fails
    \/ read_recv
    \/ read_yield
    \/ read_resume
    \/ read_close

write(w) ==
    \/ write_call(w)
    \/ write_connected(w)
    \/ write_connect_raises(w)
    \/ write_sleep(w)
    \/ write_sendall(w)

StreamNext ==
    \/ reader_connect
    \/ read
    \/ reader_close
    \/ reader_reconnect
    \/ read2_bind_fails
    \/ read2_again
    \/ \E w \in Writers : writer_connect(w) \/ write(w) \/ writer_close(w)

(***************************************************************************)
(* DomainSocket, client-server API.                                        *)
(*                                                                         *)
(* One server channel and one client channel of the same path.  Direction  *)
(* "c2s" is client_send / server_receive, "s2c" is server_send /           *)
(* client_receive.  The calls are made as the class is used: connect()     *)
(* first, server_send and server_receive after accept() has returned,      *)
(* client_receive on a connected socket.                                   *)
(***************************************************************************)
Dirs == {"c2s", "s2c"}

RECURSIVE Rep(_, _)
Rep(c, n) == IF n = 0 THEN <<>> ELSE <<c>> \o Rep(c, n - 1)

\* the messages passed to client_send and server_send: of every length up to one
\* more than the buffer size, with white space at either end, with a two-byte
\* character
CSMessages ==
    { Rep("a", n) : n \in 0 .. BUFFER_SIZE + 1 }
        \cup { <<" ">> \o Rep("a", BUFFER_SIZE - 1), Rep("a", BUFFER_SIZE - 1) \o <<" ">>,
               <<"é">>, Rep("a", BUFFER_SIZE) \o <<"é">> }

CSInit ==
    /\ csPath = FALSE
    /\ sSock = "None"
    /\ sPc = "idle"
    /\ sConn = "None"
    /\ cSock = "None"
    /\ pending = FALSE
    /\ buf = [d \in Dirs |-> <<>>]
    /\ rPc = [d \in Dirs |-> "idle"]
    /\ rMsg = [d \in Dirs |-> <<>>]
    /\ sendLast = [d \in Dirs |-> "none"]
    /\ connectLast = "none"
    /\ sentLog = [d \in Dirs |-> <<>>]
    /\ recvLog = [d \in Dirs |-> <<>>]
    /\ nSends = 0

lifeVars == <<csPath, sSock, sPc, sConn, cSock, pending>>
dataVars == <<buf, rPc, rMsg, sendLast, connectLast, sentLog, recvLog, nSends>>

\* connect(), line 65, on the server's channel
server_connect ==
    /\ sSock = "None"
    /\ sSock' = "created"
    /\ UNCHANGED <<notCS, csPath, sPc, sConn, cSock, pending, dataVars>>

\* connect(), line 65, on the client's channel
client_connect ==
    /\ cSock = "None"
    /\ cSock' = "created"
    /\ UNCHANGED <<notCS, csPath, sSock, sPc, sConn, pending, dataVars>>

\* accept(), lines 69-72: bind, listen, chmod; bind raises when the path exists
accept_bind ==
    /\ sPc = "idle"
    /\ sSock = "created"
    /\ IF csPath
       THEN UNCHANGED <<csPath, sSock, sPc>>
       ELSE /\ csPath' = TRUE
            /\ sSock' = "listening"
            /\ sPc' = "accepting"
    /\ UNCHANGED <<notCS, sConn, cSock, pending, dataVars>>

\* accept(), line 74: the client's connection is accepted
accept_return ==
    /\ sPc = "accepting"
    /\ sSock = "listening"
    /\ pending
    /\ sConn' = "open"
    /\ pending' = FALSE
    /\ sPc' = "idle"
    /\ UNCHANGED <<notCS, csPath, sSock, cSock, dataVars>>

accept == accept_bind \/ accept_return

\* close(), lines 77-79, on the server's channel: the listening socket is closed;
\* neither the accepted connection nor the path is touched
server_close ==
    /\ sSock \in {"created", "listening"}
    /\ sSock' = "closed"
    /\ sPc' = "idle"
    /\ pending' = FALSE
    /\ UNCHANGED <<notCS, csPath, sConn, cSock, dataVars>>

\* close(), lines 77-79, on the client's channel
client_close ==
    /\ cSock \in {"created", "connected"}
    /\ rPc["s2c"] = "idle"
    /\ cSock' = "closed"
    /\ UNCHANGED <<notCS, csPath, sSock, sPc, sConn, pending, dataVars>>

\* a send call begins: the run's budget allows it
send_call(d, message) ==
    /\ nSends < MaxSends
    /\ nSends' = nSends + 1
    /\ message \in CSMessages

\* (message + self.EOM).encode(), lines 86 and 95
Frame(message) == Encode(message \o <<EOM>>)

\* the other end of the client's connection exists: waiting in the backlog of the
\* listening socket, or accepted
ClientPeerAlive == pending \/ sConn = "open"

\* self.__socket.connect(self.path), line 91: how it ends. On a connected socket it
\* raises OSError (EISCONN); without the path FileNotFoundError; with the path and
\* no socket listening at it ConnectionRefusedError
Connect ==
    IF cSock = "connected" THEN "EISCONN"
    ELSE IF ~csPath THEN "FileNotFoundError"
    ELSE IF sSock # "listening" THEN "ConnectionRefusedError"
    ELSE "ok"

\* client_send(), lines 90-95: connect, any OSError of which is passed over, then
\* send, which raises on a socket that is not connected
client_send ==
    \E message \in CSMessages :
        /\ send_call("c2s", message)
        /\ cSock \in {"created", "connected"}
        /\ connectLast' = Connect
        /\ LET connects == cSock = "created" /\ sSock = "listening" /\ csPath
               connected == cSock = "connected" \/ connects
           IN  /\ cSock' = IF connects THEN "connected" ELSE cSock
               /\ pending' = IF connects THEN TRUE ELSE pending
               /\ IF connected /\ (connects \/ ClientPeerAlive)
                  THEN /\ buf' = [buf EXCEPT !["c2s"] = @ \o Frame(message)]
                       /\ sentLog' = [sentLog EXCEPT !["c2s"] = Append(@, message)]
                       /\ sendLast' = [sendLast EXCEPT !["c2s"] = "ok"]
                  ELSE /\ sendLast' = [sendLast EXCEPT !["c2s"] = "OSError"]
                       /\ UNCHANGED <<buf, sentLog>>
        /\ UNCHANGED <<notCS, csPath, sSock, sPc, sConn, rPc, rMsg, recvLog>>

\* client_send(), line 95, cut short: the client ends while send is transmitting,
\* so that only a part of the frame, without its end-of-message character, is sent
\* before the connection closes
client_send_cut ==
    \E message \in CSMessages : \E n \in 0 .. Len(Frame(message)) - 1 :
        /\ send_call("c2s", message)
        /\ cSock = "connected"
        /\ ClientPeerAlive
        /\ rPc["s2c"] = "idle"
        /\ connectLast' = Connect
        /\ buf' = [buf EXCEPT !["c2s"] = @ \o SubSeq(Frame(message), 1, n)]
        /\ cSock' = "closed"
        /\ UNCHANGED <<notCS, csPath, sSock, sPc, sConn, pending, rPc, rMsg, sendLast,
                       sentLog, recvLog>>

\* server_send(), line 86: send on the accepted connection, which raises when the
\* client has closed
server_send ==
    \E message \in CSMessages :
        /\ send_call("s2c", message)
        /\ sConn = "open"
        /\ IF cSock = "connected"
           THEN /\ buf' = [buf EXCEPT !["s2c"] = @ \o Frame(message)]
                /\ sentLog' = [sentLog EXCEPT !["s2c"] = Append(@, message)]
                /\ sendLast' = [sendLast EXCEPT !["s2c"] = "ok"]
           ELSE /\ sendLast' = [sendLast EXCEPT !["s2c"] = "OSError"]
                /\ UNCHANGED <<buf, sentLog>>
        /\ UNCHANGED <<notCS, lifeVars, rPc, rMsg, connectLast, recvLog>>

\* the channel __receive reads from exists and is connected
ReceiverReady(d) ==
    IF d = "c2s" THEN sConn = "open" ELSE cSock = "connected"

\* the sending end of direction d is closed
SenderClosed(d) ==
    IF d = "c2s" THEN cSock = "closed" ELSE FALSE

\* server_receive() (line 99) or client_receive() (line 103) is called; __receive
\* starts with an empty message (line 109)
receive_call(d) ==
    /\ rPc[d] = "idle"
    /\ ReceiverReady(d)
    /\ Len(recvLog[d]) < Len(sentLog[d]) \/ buf[d] # <<>> \/ SenderClosed(d)
    /\ rPc' = [rPc EXCEPT ![d] = "recv"]
    /\ rMsg' = [rMsg EXCEPT ![d] = <<>>]
    /\ UNCHANGED <<notCS, lifeVars, buf, sendLast, connectLast, sentLog, recvLog, nSends>>

\* channel.recv(1).decode(), line 111: a byte that is no character by itself raises
DecodeByte(b) == IF b \in {"C3", "A9"} THEN "UnicodeDecodeError" ELSE b

\* the receive call of direction d ends
receive_ends(d, how, message) ==
    /\ rPc' = [rPc EXCEPT ![d] = "idle"]
    /\ rMsg' = [rMsg EXCEPT ![d] = <<>>]
    /\ recvLog' = [recvLog EXCEPT ![d] = Append(@, <<how, message>>)]

\* __receive, lines 111-119, one turn of the loop on a byte that has arrived
receive_byte(d) ==
    /\ rPc[d] = "recv"
    /\ buf[d] # <<>>
    /\ buf' = [buf EXCEPT ![d] = Tail(@)]
    /\ LET char == DecodeByte(Head(buf[d]))
       IN  IF char = "UnicodeDecodeError" THEN receive_ends(d, "UnicodeDecodeError", <<>>)
           ELSE IF char = EOM THEN receive_ends(d, "ok", rMsg[d])
           ELSE IF Len(rMsg[d]) = BUFFER_SIZE THEN receive_ends(d, "ValueError", rMsg[d])
           ELSE /\ rMsg' = [rMsg EXCEPT ![d] = Append(@, char)]
                /\ UNCHANGED <<rPc, recvLog>>
    /\ UNCHANGED <<notCS, lifeVars, sendLast, connectLast, sentLog, nSends>>

\* __receive raising on every empty read
receive_eof_raises(d) ==
    /\ rPc[d] = "recv"
    /\ buf[d] = <<>>
    /\ SenderClosed(d)
    /\ receive_ends(d, "ValueError", rMsg[d])
    /\ UNCHANGED <<notCS, lifeVars, buf, sendLast, connectLast, sentLog, nSends>>

\* __receive, lines 111-119, one turn of the loop when the sender has closed and
\* nothing is left: recv returns b'', char is the empty string, which is not EOM; a
\* full message raises, any other message is unchanged by the append of line 119
receive_eof(d) ==
    /\ rPc[d] = "recv"
    /\ buf[d] = <<>>
    /\ SenderClosed(d)
    /\ IF Len(rMsg[d]) = BUFFER_SIZE
       THEN receive_ends(d, "ValueError", rMsg[d])
       ELSE UNCHANGED <<rPc, rMsg, recvLog>>
    /\ UNCHANGED <<notCS, lifeVars, buf, sendLast, connectLast, sentLog, nSends>>

receive(d) == receive_call(d) \/ receive_byte(d) \/ receive_eof(d)

CSNext ==
    \/ server_connect
    \/ client_connect
    \/ accept
    \/ server_close
    \/ client_close
    \/ client_send
    \/ client_send_cut
    \/ server_send
    \/ \E d \in Dirs : receive(d)

(***************************************************************************)
(* Claims about the client-server API.                                     *)
(***************************************************************************)
\* the i-th receive of direction d began at the start of the i-th message sent:
\* every earlier receive returned a message
Aligned(d, i) ==
    /\ i <= Len(sentLog[d])
    /\ \A j \in 1 .. i - 1 : recvLog[d][j][1] = "ok"

\* C2: a message sent with client_send (server_send) whose length is within the
\* buffer size is returned by the matching server_receive (client_receive) with
\* its surrounding white space removed.
C2_FramedRoundTrip ==
    \A d \in Dirs : \A i \in 1 .. Len(recvLog[d]) :
        (Aligned(d, i) /\ Len(sentLog[d][i]) <= BUFFER_SIZE)
            => recvLog[d][i] = <<"ok", Strip(sentLog[d][i])>>

\* C8: the receive of a message longer than the buffer size fails with a
\* ValueError that carries the characters accumulated so far, the first
\* BUFFER_SIZE characters of the message.
C8_OversizeRejected ==
    \A d \in Dirs : \A i \in 1 .. Len(recvLog[d]) :
        (Aligned(d, i) /\ Len(sentLog[d][i]) > BUFFER_SIZE)
            => recvLog[d][i] = <<"ValueError", SubSeq(sentLog[d][i], 1, BUFFER_SIZE)>>

\* the first i messages sent in direction d are within the buffer size
WithinLimit(d, i) ==
    /\ i <= Len(sentLog[d])
    /\ \A j \in 1 .. i : Len(sentLog[d][j]) <= BUFFER_SIZE

\* the first i messages sent in direction d are of one-byte characters
OneByteChars(d, i) ==
    /\ i <= Len(sentLog[d])
    /\ \A j \in 1 .. i : \A k \in 1 .. Len(sentLog[d][j]) : sentLog[d][j][k] # "é"

\* C11: client_send calls made one after another on one channel succeed, the
\* connect of a later call failing on the connected socket and being passed over;
\* the i-th server_receive returns the i-th message sent, for messages within the
\* buffer size.
C11_InSessionOrder ==
    /\ (connectLast = "EISCONN" /\ sConn = "open") => sendLast["c2s"] = "ok"
    /\ \A i \in 1 .. Len(recvLog["c2s"]) :
          WithinLimit("c2s", i) => recvLog["c2s"][i] = <<"ok", sentLog["c2s"][i]>>

\* C11 for messages of one-byte characters: the part of C11 that the code keeps
C11_InSessionOrderOneByteChars ==
    /\ (connectLast = "EISCONN" /\ sConn = "open") => sendLast["c2s"] = "ok"
    /\ \A i \in 1 .. Len(recvLog["c2s"]) :
          (WithinLimit("c2s", i) /\ OneByteChars("c2s", i))
              => recvLog["c2s"][i] = <<"ok", sentLog["c2s"][i]>>

\* C12: after close() on the channel that bound the path with accept(), the path
\* does not exist, so that a later bind to it succeeds.
C12_CloseUnlinksPath == sSock = "closed" => ~csPath

\* __receive of direction d reads from a connection that its peer has closed and
\* that holds no byte
VanishedPeer(d) == rPc[d] = "recv" /\ buf[d] = <<>> /\ SenderClosed(d)

\* C13 as stated: a receive whose peer has closed before sending the end-of-message
\* character neither returns nor raises, whatever it has accumulated.
C13_ReceiveNeverEnds ==
    [][\A d \in Dirs :
          VanishedPeer(d) => (rPc'[d] = "recv" /\ recvLog'[d] = recvLog[d])]_vars

\* C13: a receive whose peer has closed before sending the end-of-message character
\* neither returns nor raises and keeps what it has accumulated, unless that is
\* exactly BUFFER_SIZE characters: then it may only go on or raise ValueError
\* carrying them.
C13_VanishedPeer ==
    [][\A d \in Dirs :
          VanishedPeer(d)
          => IF Len(rMsg[d]) = BUFFER_SIZE
             THEN \/ rPc'[d] = "recv" /\ recvLog'[d] = recvLog[d]
                  \/ /\ rPc'[d] = "idle"
                     /\ recvLog'[d] = Append(recvLog[d], <<"ValueError", rMsg[d]>>)
             ELSE rPc'[d] = "recv" /\ rMsg'[d] = rMsg[d] /\ recvLog'[d] = recvLog[d]]_vars

\* C13 witness: a receive that has accumulated some characters, fewer than
\* BUFFER_SIZE, reads from a connection its peer has closed
C13_Witness ==
    \E d \in Dirs : VanishedPeer(d) /\ Len(rMsg[d]) > 0 /\ Len(rMsg[d]) < BUFFER_SIZE

\* C15: after a receive has raised ValueError on a message longer than the buffer
\* size, the next receive on the channel returns the next message sent, whole, and
\* no remainder of the long one.
C15_OversizeIsLocal ==
    \A d \in Dirs : \A i \in 2 .. Len(recvLog[d]) :
        (/\ Aligned(d, i - 1)
         /\ Len(sentLog[d][i - 1]) > BUFFER_SIZE
         /\ recvLog[d][i - 1][1] = "ValueError"
         /\ i <= Len(sentLog[d])
         /\ Len(sentLog[d][i]) <= BUFFER_SIZE
         /\ \A k \in 1 .. Len(sentLog[d][i]) : sentLog[d][i][k] # "é")
            => recvLog[d][i] = <<"ok", sentLog[d][i]>>

\* C16: a client_send whose connect found no listener at the path ends with
\* ConnectionRefusedError, the failure of the connect being the one surfaced.
C16_ConnectFailureSurfaced ==
    connectLast \in {"FileNotFoundError", "ConnectionRefusedError"}
        => sendLast["c2s"] = "ConnectionRefusedError"

(***************************************************************************)
(* Claims about the unidirectional API, checked under SpecStream and, for  *)
(* the liveness claim, FairSpecStream.                                     *)
(***************************************************************************)

\* C3: once a read() generator that bound the path has exited, by whatever way
\* (closed at its yield, a failure of accept, a failure of listen or of chmod after
\* the bind), the path does not exist, so that a later bind to it succeeds.
C3_PathRemovedOnExit ==
    (rdPc = "exited"
        /\ rdExit \in {"closed", "accept_error", "listen_error", "chmod_error"})
    => ~stPath

\* C6: a write() without wait_for_availability whose connect finds no listener ends
\* at once with ConnectionRefusedError: it is never in the sleep of the retry loop,
\* its one connect attempt is its last step, and it sends nothing.
C6_FailFastWrite ==
    /\ [](\A w \in Writers : wPc[w] = "sleep" => wWait[w])
    /\ [][\A w \in Writers :
            (wPc[w] = "connect" /\ ~wWait[w] /\ ~ListenerLive /\ wPc'[w] # "connect")
            => /\ wPc'[w] = "idle"
               /\ wLast'[w] = "ConnectionRefusedError"
               /\ UNCHANGED <<wire, sent, wSock, backlog>>]_vars

\* C6 witness: a fail-fast write() has ended with ConnectionRefusedError on a socket
\* that was never connected, no listener being live
C6_Witness ==
    \E w \in Writers :
        /\ wPc[w] = "idle" /\ wLast[w] = "ConnectionRefusedError"
        /\ wSock[w] = "created" /\ sent[w] = <<>> /\ ~ListenerLive

\* the write() in progress of writer w was called with wait_for_availability while
\* no listener was live, and is in its retry loop
RetryingWrite(w) == wPc[w] \in {"connect", "sleep"} /\ wWait[w] /\ wNoListener[w]

WriteReturned(w) == wPc[w] = "idle" /\ wLast[w] = "ok"

\* C7: a write() with wait_for_availability called while no listener exists leaves
\* its retry loop only by connecting, never by raising; and once a listener is live
\* and stays live, the write() connects, sends the stripped message and returns.
C7_RetryingWrite ==
    /\ [][\A w \in Writers :
            RetryingWrite(w) => wPc'[w] \in {"connect", "sleep", "send"}]_vars
    /\ \A w \in Writers :
          []((RetryingWrite(w) /\ []ListenerLive) => <>WriteReturned(w))

\* C7 on a socket that no earlier write() has connected: the part of C7 that the
\* code keeps
C7_RetryingWriteFreshSocket ==
    /\ [][\A w \in Writers :
            RetryingWrite(w) => wPc'[w] \in {"connect", "sleep", "send"}]_vars
    /\ \A w \in Writers :
          []((RetryingWrite(w) /\ wSock[w] = "created" /\ []ListenerLive)
                => <>WriteReturned(w))

\* C14: the reader yields the payload of a connection only once its writer has
\* closed, and the payload is the stripped decoding of all the bytes the writer sent
\* on it, end-of-message characters inside included; while the writer of the accepted
\* connection has not closed, the reader yields nothing and accepts no connection.
C14_FramingByClose ==
    /\ [][Len(yielded') > Len(yielded)
            => /\ wSock[rdConn] = "closed"
               /\ yielded' = Append(yielded, Strip(Decode(sent[rdConn])))]_vars
    /\ [][(rdPc = "drain" /\ wSock[rdConn] # "closed")
            => UNCHANGED <<yielded, accepted, rdConn, rdPc>>]_vars

\* C14 witness: a payload with an end-of-message character inside was yielded whole,
\* and the reader now waits on a connection whose writer has sent its message and
\* not closed, with nothing left to read
C14_Witness ==
    /\ Len(yielded) = 1
    /\ yielded[1] = <<"é", "\n", "b">>
    /\ rdPc = "drain"
    /\ wSock[rdConn] = "connected"
    /\ sent[rdConn] # <<>>
    /\ wire[rdConn] = <<>>

\* C18: a write() on a channel whose socket an earlier write() has connected, a
\* reader being live, does not enter the retry loop and does not raise
\* ConnectionRefusedError: its connect step leads to the send.
C18_RepeatedWrite ==
    [][\A w \in Writers :
          (wPc[w] = "connect" /\ wSock[w] = "connected" /\ ListenerLive)
          => wPc'[w] \in {"connect", "send"}]_vars

\* C19: the read() of a second reader that fails to bind, the path being bound,
\* changes neither the path nor the first reader: a live listener stays live and
\* the connections waiting for it stay.
C19_FailedBindKeepsPath ==
    [][(rd2Pc = "idle" /\ rd2Pc' = "exited")
          => (UNCHANGED <<stPath, rdSock, rdPc, backlog>>
                /\ (ListenerLive => ListenerLive'))]_vars

\* C19 witness: the second reader's read() has failed at its bind while the first
\* reader serves the path
C19_Witness ==
    /\ rd2Pc = "exited"
    /\ ListenerLive
    /\ rdPc \in {"accept", "drain", "yield"}
    /\ stPath

\* C9: the payloads yielded are, in accept order, the stripped payloads of the
\* accepted connections: one per connection, the connection being drained the only
\* one without its payload yet, and no connection accepted twice.
C9_StreamingOrder ==
    /\ Len(accepted) = Len(yielded) + (IF rdPc = "drain" THEN 1 ELSE 0)
    /\ \A i \in 1 .. Len(yielded) : yielded[i] = Strip(Decode(sent[accepted[i]]))
    /\ \A i, j \in 1 .. Len(accepted) : accepted[i] = accepted[j] => i = j

\* C9 witness: two connections were accepted and their payloads, which differ, were
\* yielded
C9_Witness ==
    /\ Len(yielded) = 2
    /\ yielded[1] # yielded[2]

(***************************************************************************)
(* Claims about SPI, checked under SpecSPI.                                *)
(***************************************************************************)
SameBus(p, q) == p # q /\ bus[p] = bus[q]

IsOpen(p) == connection[p] = "open"

\* C1: among the handles of one bus number at most one is open in every reachable
\* state; an open() waiting for the lock while another handle of the bus is open
\* either keeps waiting or ends with the timeout failure, its handle closed: it takes
\* no other step while that holder is open.
C1_AtMostOneOpen ==
    /\ [](\A p, q \in Procs : SameBus(p, q) /\ IsOpen(p) => ~IsOpen(q))
    /\ [][\A p \in Procs :
            (spiPc[p] = "open_acquire" /\ \E q \in Procs : SameBus(p, q) /\ IsOpen(q))
            => \/ spiPc'[p] = "open_acquire" /\ connection'[p] = "None"
               \/ /\ spiPc'[p] = "idle"
                  /\ spiLast'[p] = <<"open", "LockTimeout">>
                  /\ connection'[p] = "None"]_vars

\* C1 witness: a handle is open while another process of the same bus waits in open()
C1_Witness ==
    \E p, q \in Procs : SameBus(p, q) /\ IsOpen(p) /\ spiPc[q] = "open_acquire"

\* the lock of the bus of handle p is held by another handle of that bus
HeldOnSameBus(p) == \E q \in Procs : SameBus(p, q) /\ lock[SPI_name(q)] = q

\* C17: two handles have the same lock name exactly when they have the same bus
\* number, whatever their devices; an open() takes the lock only when no handle of
\* its bus holds it; an open() waiting while no other handle of its bus holds the
\* lock finds the lock free, whatever is held for other buses; and an open() times
\* out only when another handle of its bus holds the lock.
C17_LockKeyIsBus ==
    /\ [](\A p, q \in Procs : (SPI_name(p) = SPI_name(q)) <=> (bus[p] = bus[q]))
    /\ [](\A p \in Procs :
            (spiPc[p] = "open_acquire" /\ ~HeldOnSameBus(p)) => Lock_free(SPI_name(p)))
    /\ [][\A p \in Procs :
            (lock[SPI_name(p)] # p /\ lock'[SPI_name(p)] = p) => ~HeldOnSameBus(p)]_vars
    /\ [][\A p \in Procs :
            (spiPc[p] = "open_acquire" /\ spiPc'[p] = "idle"
                /\ spiLast'[p] = <<"open", "LockTimeout">>)
            => HeldOnSameBus(p)]_vars

\* C17 witness: of two handles of one bus with different devices one holds the lock
\* and the open() of the other has timed out
C17_Witness ==
    \E p, q \in Procs :
        /\ SameBus(p, q)
        /\ device[p] # device[q]
        /\ lock[SPI_name(p)] = p
        /\ spiPc[q] = "idle" /\ spiLast[q] = <<"open", "LockTimeout">>

\* C4: once close() on a connected handle has returned or raised, the lock of the bus
\* is not held by that handle.
C4_CloseAlwaysReleases ==
    \A p \in Procs :
        (spiPc[p] = "idle" /\ spiLast[p][1] = "close") => lock[SPI_name(p)] # p

\* C5: open() on a connected handle acquires nothing and sets nothing up; close() on
\* an unconnected handle disconnects nothing and releases nothing; after
\* open(); close(); open(); close() on one handle the lock is not held; acquisitions
\* and releases of one handle alternate strictly, the first being an acquisition.
C5_IdempotentOpenClose ==
    /\ [](\A p \in Procs :
            /\ (calls[p] = <<"open", "close", "open", "close">> /\ spiPc[p] = "idle")
                  => lock[SPI_name(p)] # p
            /\ \A i \in 1 .. Len(lockOps[p]) :
                  lockOps[p][i] = (IF i % 2 = 1 THEN "acquire" ELSE "release"))
    /\ [][\A p \in Procs :
            /\ (Len(calls'[p]) > Len(calls[p]) /\ calls'[p][Len(calls'[p])] = "open"
                    /\ connection[p] # "None")
                  => (UNCHANGED <<connection, lock, lockOps>> /\ spiPc'[p] = "idle")
            /\ (Len(calls'[p]) > Len(calls[p]) /\ calls'[p][Len(calls'[p])] = "close"
                    /\ connection[p] = "None")
                  => (UNCHANGED <<connection, lock, lockOps>> /\ spiPc'[p] = "idle")]_vars

\* C20: an open() that has failed in its hardware connection, the lock acquired,
\* leaves the handle closed and the lock released, so that a later open() acquires
\* and connects again.
C20_FailedOpenReleases ==
    \A p \in Procs :
        (spiPc[p] = "idle" /\ spiLast[p] = <<"open", "IOError">>)
            => (connection[p] = "None" /\ lock[SPI_name(p)] # p)

\* C10: an open() whose Lock.acquire does not get the lock ends at once with the
\* timeout failure: no further attempt, no connection, no lock taken, the handle closed.
C10_LockTimeoutIsFatal ==
    [][\A p \in Procs :
          (spiPc[p] = "open_acquire" /\ spiPc'[p] # "open_acquire" /\ lock'[SPI_name(p)] # p)
          => /\ spiPc'[p] = "idle"
             /\ spiLast'[p] = <<"open", "LockTimeout">>
             /\ connection'[p] = "None"
             /\ UNCHANGED <<lock, lockOps, calls, nCalls>>]_vars

\* C10 witness: an open() has ended with the timeout failure while another handle of
\* the bus holds the lock
C10_Witness ==
    \E p, q \in Procs :
        /\ SameBus(p, q)
        /\ spiPc[p] = "idle" /\ spiLast[p] = <<"open", "LockTimeout">>
        /\ lock[SPI_name(p)] = q

Init == SPIInit /\ StreamInit /\ CSInit

SpecSPI == Init /\ [][SPINext]_vars

\* the handles are not used by the channels: all on bus 0
InitChannels == Init /\ bus = [p \in Procs |-> 0]

SpecStream == InitChannels /\ [][StreamNext]_vars

SpecCS == InitChannels /\ [][CSNext]_vars

\* a writer inside write() keeps running: its connect attempts, the end of its sleep
\* and its sendall are taken when they can be
FairSpecStream ==
    /\ SpecStream
    /\ \A w \in Writers :
          /\ WF_vars(write_connected(w) \/ write_connect_raises(w))
          /\ WF_vars(write_sleep(w))
          /\ WF_vars(write_sendall(w))

=============================================================================
